---- MODULE Spec2Model ----
(***************************************************************************)
(* mercator_db: the multi-resolution spatial index SpaceDB                 *)
(* (src/src/database/space_db.rs) and the geometric primitives it uses     *)
(* (src/src/database/space/shape.rs, position.rs).                          *)
(*                                                                         *)
(* Representation.                                                         *)
(*  - A Coordinate is its integer view, a natural number.                  *)
(*  - A Position is the tuple of its coordinates.                          *)
(*  - A SpaceSetObject is [position, value].                               *)
(*  - A Vec<SpaceSetObject> is modelled by its bag: the builder sends the  *)
(*    vector through a HashMap (whose drain order is unspecified) and the  *)
(*    queries' result order is unspecified, so no operation modelled here  *)
(*    reads the order.                                                     *)
(*  - An f64 is an exact rational [num, den] (den # 0).                    *)
(*  - Option<T> is [some |-> FALSE] or [some |-> TRUE, v |-> t].           *)
(***************************************************************************)
EXTENDS Integers, Sequences, FiniteSets, Bags, TLC

(***************************************************************************)
(* Bounds of the model.                                                    *)
(***************************************************************************)
\* Largest number of build-time objects handed to SpaceDB::new.
MaxObjs == 3
\* Largest max_elements handed to SpaceDB::new (max_elements >= 1).
MaxElements == 2
\* Cap on the number of iterations of the coarsening loop the model follows.
MaxIter == 4
\* Largest grid coordinate of the positions and shapes the primitives are
\* called on.
MaxCoord == 2
\* Largest radius of the hyperspheres rasterised.
MaxRadius == 1
\* Largest number of levels of the ladders whose thresholds are computed.
MaxLevels == 32

(***************************************************************************)
(* Program constants.                                                      *)
(***************************************************************************)
\* const DIMENSIONS: usize = 3
DIMENSIONS == 3
\* "if count >= 31 { 31 } else { count }"
MaxShift == 31

(***************************************************************************)
(* Input domains.                                                          *)
(***************************************************************************)
\* Caller identifiers carried by the build-time objects: far from the
\* dictionary offsets 0, 1, ... so that an offset is never an identifier.
Ids == {5, 9}
\* Identifiers a query may ask for: the above and one that is never stored.
QueryIds == Ids \cup {7}
\* Build-time positions (grid coordinates, DIMENSIONS axes).
PosPool == {<<0, 0, 0>>, <<1, 0, 0>>, <<2, 1, 0>>, <<3, 2, 1>>}
\* reference_space.volume()
Volumes == {8}
\* The explicit ladders a caller may supply (each scale has equal components,
\* the list is non-empty: the preconditions of the explicit path).
ScaleLists ==
  { << <<1, 1, 1>> >>,
    << <<2, 2, 2>>, <<0, 0, 0>> >>,
    << <<1, 1, 1>>, <<1, 1, 1>> >>,
    << <<2, 2, 2>>, <<1, 1, 1>> >> }

None == [some |-> FALSE]
Some(x) == [some |-> TRUE, v |-> x]

Objects == [position : PosPool, value : Ids]

\* The bag of the elements of sequence s.
RECURSIVE SeqToBag(_)
SeqToBag(s) ==
  IF s = << >> THEN EmptyBag
  ELSE SetToBag({Head(s)}) (+) SeqToBag(Tail(s))

\* Every bag of at most n objects.
RECURSIVE SeqsUpTo(_, _)
SeqsUpTo(S, n) ==
  IF n = 0 THEN {<< >>}
  ELSE LET shorter == SeqsUpTo(S, n - 1)
       IN  shorter \cup {Append(s, x) : s \in {t \in shorter : Len(t) = n - 1}, x \in S}

InputBags == {SeqToBag(s) : s \in SeqsUpTo(Objects, MaxObjs)}


(***************************************************************************)
(* State.                                                                  *)
(***************************************************************************)
VARIABLES
  pc,                    \* where SpaceDB::new stands, "built" once it returned
  objects,               \* the space_objects argument as the caller gave it
  scales,                \* the scales argument
  max_elements,          \* the max_elements argument
  space_volume,          \* reference_space.volume()
  values,                \* SpaceDB.values, the value dictionary
  space_objects,         \* the builder's working vector
  powers,                \* explicit path: (scale, bit shift from the previous)
  count,                 \* the builder's counter
  element_count_target,  \* auto path: half the last emitted level's count
  indices,               \* the levels emitted so far: (index, scale, shift)
  resolutions,           \* SpaceDB.resolutions
  query,                 \* the last query run on the built SpaceDB
  result                 \* what it returned

vars == <<pc, objects, scales, max_elements, space_volume, values,
          space_objects, powers, count, element_count_target, indices,
          resolutions, query, result>>

args == <<objects, scales, max_elements, space_volume>>

(***************************************************************************)
(* f64 as exact rationals.                                                 *)
(***************************************************************************)
F(n) == [num |-> n, den |-> 1]

Sign(n) == IF n < 0 THEN -1 ELSE 1

Abs(n) == IF n < 0 THEN -n ELSE n

\* a <= b on f64 (no NaN in the model)
FLeq(a, b) == a.num * Sign(a.den) * Abs(b.den) <= b.num * Sign(b.den) * Abs(a.den)

\* a < b on f64
FLess(a, b) == ~FLeq(b, a)

\* a / f64::from(n), n an i32
FDivInt(a, n) == [num |-> a.num, den |-> a.den * n]

(***************************************************************************)
(* The value dictionary (space_db.rs 38-51).                               *)
(***************************************************************************)
SetMin(S) == CHOOSE x \in S : \A y \in S : x <= y

\* .collect::<HashSet<_>>(): the distinct values the objects carry
DistinctValues(B) == {o.value : o \in BagToSet(B)}

SetMax(S) == CHOOSE x \in S : \A y \in S : x >= y

\* a plausible slip: the dictionary sorted largest first
RECURSIVE SortByKeyDescending(_)
SortByKeyDescending(S) ==
  IF S = {} THEN << >>
  ELSE <<SetMax(S)>> \o SortByKeyDescending(S \ {SetMax(S)})

\* values.sort_unstable_by_key(|&c| c.u64()) on the drained set: the keys are
\* distinct, so the result is the one ascending vector.
RECURSIVE SortByKey(_)
SortByKey(S) ==
  IF S = {} THEN << >>
  ELSE <<SetMin(S)>> \o SortByKey(S \ {SetMin(S)})

\* slice::binary_search over [lo, hi) (0-based): Ok(offset) or Err.
RECURSIVE BinarySearchIn(_, _, _, _)
BinarySearchIn(v, x, lo, hi) ==
  IF lo >= hi THEN [found |-> FALSE, offset |-> lo]
  ELSE LET mid == lo + ((hi - lo) \div 2)
       IN  IF v[mid + 1] = x THEN [found |-> TRUE, offset |-> mid]
           ELSE IF v[mid + 1] < x THEN BinarySearchIn(v, x, mid + 1, hi)
           ELSE BinarySearchIn(v, x, lo, mid)

BinarySearch(v, x) == BinarySearchIn(v, x, 0, Len(v))

\* a plausible slip: the object keeps the caller's value
EncodeValueKept(v, o) == o

\* object.set_value(values.binary_search(object.value()).unwrap().into())
EncodeValue(v, o) == [o EXCEPT !.value = BinarySearch(v, o.value).offset]

\* space_objects.iter_mut().for_each(...): every object rewritten
EncodeObjects(v, B) == BagOfAll(LAMBDA o : EncodeValue(v, o), B)

(***************************************************************************)
(* Coarsening and deduplication (space_db.rs 83-98, 142-157).              *)
(***************************************************************************)
\* Coordinate::reduce_precision(k): the integer view shifted right by k bits
ReduceCoordinate(c, k) == IF k >= 64 THEN 0 ELSE c \div (2 ^ k)

\* Position::reduce_precision(k): elementwise
ReducePrecision(p, k) == [i \in DOMAIN p |-> ReduceCoordinate(p[i], k)]

\* o.set_position(o.position().reduce_precision(k))
ReduceObject(o, k) == [o EXCEPT !.position = ReducePrecision(o.position, k)]

\* .map(...).collect::<HashMap<_, SpaceSetObject>>().drain().map(|(_k, v)| v):
\* one survivor per hash of (position, value), the hash taken as injective.
Coarsen(B, k) == SetToBag({ReduceObject(o, k) : o \in BagToSet(B)})

\* SpaceSetIndex::new(&VectorTable::new(objects), DIMENSIONS, CELL_BITS): the
\* table holds the objects it was given.
NewSpaceSetIndex(B) == B

\* "if count >= 31 { 31 } else { count }"
ShiftOf(c) == IF c >= MaxShift THEN MaxShift ELSE c

\* count == std::u32::MAX, written on the two 16-bit halves of count
IsU32Max(c) == (c \div 65536 = 65535) /\ (c % 65536 = 65535)

Max(a, b) == IF a >= b THEN a ELSE b

\* an emitted level: (SpaceSetIndex, scale, shift)
Level(B, c, shift) == [index |-> NewSpaceSetIndex(B), scale |-> <<c, c, c>>, shift |-> shift]

(***************************************************************************)
(* Volume thresholds and the final sort (space_db.rs 196-218).             *)
(***************************************************************************)
\* 1 << k on i32, 0 <= k <= 31: bit 31 is the sign bit
Shl1(k) == IF k < 31 THEN 2 ^ k ELSE (-(2 ^ 30)) - (2 ^ 30)

\* match indices.last() { None => 31, Some((_, _, x)) => *x }
MaxShiftOf(ix) == IF ix = << >> THEN 31 ELSE ix[Len(ix)].shift

\* space_volume / f64::from(1 << (max_shift - shift))
ThresholdOf(volume, max_shift, shift) == FDivInt(volume, Shl1(max_shift - shift))

\* SpaceIndex::new(volume, scale, index), for every emitted level in turn
Unsorted(ix, volume) ==
  [i \in 1..Len(ix) |->
     [threshold |-> ThresholdOf(volume, MaxShiftOf(ix), ix[i].shift),
      scale |-> ix[i].scale,
      index |-> ix[i].index]]

\* a plausible slip: the comparison reversed, b.threshold() against a's
SortedDescending(r) ==
  \A i \in 1..Len(r) - 1 : FLeq(r[i + 1].threshold, r[i].threshold)

\* What sort_unstable_by(|a, b| a.threshold().partial_cmp(&b.threshold()))
\* leaves: the thresholds ascending.
SortedByThreshold(r) ==
  \A i \in 1..Len(r) - 1 : FLeq(r[i].threshold, r[i + 1].threshold)

\* The outcomes of resolutions.sort_unstable_by(...): every ordering of the
\* levels with ascending thresholds. The sort is not stable, so levels with
\* equal thresholds come out in either order.
SortOutcomes(r) ==
  {s \in {[i \in 1..Len(r) |-> r[pi[i]]] : pi \in Permutations(1..Len(r))} :
     SortedByThreshold(s)}

(***************************************************************************)
(* SpaceDB::new (space_db.rs 28-225).                                      *)
(***************************************************************************)
Init ==
  /\ pc = "new"
  /\ objects \in InputBags
  /\ \E m \in {"scales", "max_elements", "full"} :
       /\ scales \in IF m = "scales" THEN {Some(sc) : sc \in ScaleLists} ELSE {None}
       /\ max_elements \in IF m = "max_elements"
                           THEN {Some(n) : n \in 1..MaxElements} ELSE {None}
  /\ space_volume \in {F(v) : v \in Volumes}
  /\ values = << >>
  /\ space_objects = objects
  /\ powers = << >>
  /\ count = 0
  /\ element_count_target = 0
  /\ indices = << >>
  /\ resolutions = << >>
  /\ query = [op |-> "none"]
  /\ result = EmptyBag

\* lines 38-51: the dictionary, then every object rewritten to its offset
BuildDictionary ==
  /\ pc = "new"
  /\ LET v == SortByKey(DistinctValues(space_objects))
     IN  /\ values' = v
         /\ IF \A o \in BagToSet(space_objects) : BinarySearch(v, o.value).found
            THEN /\ space_objects' = EncodeObjects(v, space_objects)
                 /\ pc' = "ladder"
            ELSE /\ space_objects' = space_objects   \* unwrap() of an Err
                 /\ pc' = "panic"
  /\ UNCHANGED <<args, powers, count, element_count_target, indices,
                 resolutions, query, result>>

\* exps.sort_unstable_by_key(|v| v[0]): ascending on the first component
RECURSIVE SortScales(_)
SortScales(sc) ==
  IF sc = << >> THEN << >>
  ELSE LET i == CHOOSE j \in 1..Len(sc) : \A k \in 1..Len(sc) : sc[j][1] <= sc[k][1]
       IN  <<sc[i]>> \o SortScales(SubSeq(sc, 1, i - 1) \o SubSeq(sc, i + 1, Len(sc)))

\* a plausible slip: each level reduced by its whole scale, not by the
\* difference to the level before
RECURSIVE PowersAbsolute(_, _)
PowersAbsolute(exps, previous) ==
  IF exps = << >> THEN << >>
  ELSE <<<<Head(exps)[1], Head(exps)[1]>>>> \o PowersAbsolute(Tail(exps), Head(exps)[1])

\* lines 69-77: powers.push((scale[0], scale[0] - previous))
RECURSIVE PowersOf(_, _)
PowersOf(exps, previous) ==
  IF exps = << >> THEN << >>
  ELSE <<<<Head(exps)[1], Head(exps)[1] - previous>>>> \o PowersOf(Tail(exps), Head(exps)[1])

\* the two assertions of lines 72-73
ScaleAccepted(scale) ==
  /\ Len(scale) = DIMENSIONS
  /\ scale[1] = scale[2] /\ scale[1] = scale[3]

\* lines 57-81: the explicit path is taken, the shifts are prepared
ScalesPrepare ==
  /\ pc = "ladder"
  /\ scales.some
  /\ IF \A i \in 1..Len(scales.v) : ScaleAccepted(scales.v[i])
     THEN /\ powers' = PowersOf(SortScales(scales.v), 0)
          /\ pc' = IF Len(scales.v) = 0 THEN "thresholds" ELSE "scales"
     ELSE /\ powers' = powers
          /\ pc' = "panic"
  /\ count' = 0
  /\ UNCHANGED <<args, values, space_objects, element_count_target, indices,
                 resolutions, query, result>>

\* lines 82-112: one iteration of "for power in &powers"
ScalesStep ==
  /\ pc = "scales"
  /\ count < Len(powers)
  /\ LET power == powers[count + 1]
         coarser == Coarsen(space_objects, power[2])
     IN  /\ space_objects' = coarser
         /\ indices' = Append(indices, Level(coarser, power[1], ShiftOf(count)))
  /\ count' = count + 1
  /\ pc' = IF count' = Len(powers) THEN "thresholds" ELSE "scales"
  /\ UNCHANGED <<args, values, powers, element_count_target, resolutions,
                 query, result>>

\* max_elements.max(values.len()) (line 118)
MaxElementsOf(m, v) == Max(m, Len(v))

\* lines 115-134: the auto path with max_elements, the full resolution level
AutoFullResolution ==
  /\ pc = "ladder"
  /\ ~scales.some
  /\ max_elements.some
  /\ count' = 0
  /\ element_count_target' = BagCardinality(space_objects) \div 2
  /\ indices' = Append(indices, Level(space_objects, 0, 0))
  /\ pc' = "loop"
  /\ UNCHANGED <<args, values, space_objects, powers, resolutions, query, result>>

\* a plausible slip: the count is compared with the last level's whole count
SkipsLevelWhole(target, B) == 2 * target + 1 < BagCardinality(B)

\* "if element_count_target < space_objects.len() { continue; }" (line 161)
SkipsLevel(target, B) == target < BagCardinality(B)

\* the break of line 179
LoopBreaks(B, m, c) == BagCardinality(B) <= m \/ IsU32Max(c)

\* lines 138-162: an iteration of the loop that ends on "continue". count is
\* a u32; the iterations followed stay far below u32::MAX, where "count += 1"
\* overflows.
AutoSkip ==
  /\ pc = "loop"
  /\ count < MaxIter
  /\ LET coarser == Coarsen(space_objects, 1)
     IN  /\ SkipsLevel(element_count_target, coarser)
         /\ space_objects' = coarser
  /\ count' = count + 1
  /\ UNCHANGED <<args, values, powers, element_count_target, indices, pc,
                 resolutions, query, result>>

\* lines 138-181: an iteration of the loop that emits a level
AutoEmit ==
  /\ pc = "loop"
  /\ count < MaxIter
  /\ LET coarser == Coarsen(space_objects, 1)
     IN  /\ ~SkipsLevel(element_count_target, coarser)
         /\ space_objects' = coarser
         /\ element_count_target' = BagCardinality(coarser) \div 2
         /\ indices' = Append(indices, Level(coarser, count + 1, ShiftOf(count)))
         /\ pc' = IF LoopBreaks(coarser, MaxElementsOf(max_elements.v, values), count + 1)
                  THEN "thresholds" ELSE "loop"
  /\ count' = count + 1
  /\ UNCHANGED <<args, values, powers, resolutions, query, result>>

\* lines 186-193: the auto path without max_elements
FullScaleOnly ==
  /\ pc = "ladder"
  /\ ~scales.some
  /\ ~max_elements.some
  /\ indices' = Append(indices, Level(space_objects, 0, 0))
  /\ pc' = "thresholds"
  /\ UNCHANGED <<args, values, space_objects, powers, count,
                 element_count_target, resolutions, query, result>>

\* lines 196-225: thresholds, sort, and the SpaceDB is returned
Finish ==
  /\ pc = "thresholds"
  /\ resolutions' \in SortOutcomes(Unsorted(indices, space_volume))
  /\ pc' = "built"
  /\ UNCHANGED <<args, values, space_objects, powers, count,
                 element_count_target, indices, query, result>>

Build ==
  \/ BuildDictionary
  \/ ScalesPrepare
  \/ ScalesStep
  \/ AutoFullResolution
  \/ AutoSkip
  \/ AutoEmit
  \/ FullScaleOnly
  \/ Finish

(***************************************************************************)
(* Shapes (shape.rs).                                                      *)
(***************************************************************************)
Point(p) == [kind |-> "Point", position |-> p]

BoundingBox(lo, hi) == [kind |-> "BoundingBox", lower |-> lo, higher |-> hi]

\* Shape::gen's next(): the successor of state, last dimension fastest, and
\* whether there is one. i runs over (0..dimensions).rev().
RECURSIVE GenNext(_, _, _, _)
GenNext(lower, higher, state, i) ==
  IF i = 0 THEN [more |-> FALSE, state |-> state]
  ELSE IF state[i] + 1 >= higher[i]
       THEN GenNext(lower, higher, [state EXCEPT ![i] = lower[i]], i - 1)
       ELSE [more |-> TRUE, state |-> [state EXCEPT ![i] = state[i] + 1]]

\* the loop "while next(...) { results.push(current.clone()) }"
RECURSIVE GenLoop(_, _, _, _)
GenLoop(lower, higher, current, results) ==
  LET n == GenNext(lower, higher, current, Len(lower))
  IN  IF n.more
      THEN GenLoop(lower, higher, n.state, Append(results, n.state))
      ELSE results

\* Shape::gen(lower, higher)
Gen(lower, higher) == GenLoop(lower, higher, lower, <<lower>>)

HyperSphere(c, r) == [kind |-> "HyperSphere", center |-> c, radius |-> r]

\* Coordinate - Coordinate and Coordinate + Coordinate: the arithmetic of the
\* scalar, which under its float view may fall below zero
CoordinateSub(a, b) == a - b

CoordinateAdd(a, b) == a + b

\* Position - Position: "self[k] = self[k] - rhs[k]" for k in 0..dimensions,
\* from coordinate i on
RECURSIVE SubFrom(_, _, _)
SubFrom(a, b, i) ==
  IF i > Len(a) THEN << >>
  ELSE <<CoordinateSub(a[i], b[i])>> \o SubFrom(a, b, i + 1)

PositionSub(a, b) == SubFrom(a, b, 1)

\* Position + Position, likewise
RECURSIVE AddFrom(_, _, _)
AddFrom(a, b, i) ==
  IF i > Len(a) THEN << >>
  ELSE <<CoordinateAdd(a[i], b[i])>> \o AddFrom(a, b, i + 1)

PositionAdd(a, b) == AddFrom(a, b, 1)

\* "for _ in 0..dimensions { vr.push(*radius) }"
RECURSIVE Repeated(_, _)
Repeated(radius, n) ==
  IF n = 0 THEN << >> ELSE <<radius>> \o Repeated(radius, n - 1)

\* Shape::get_mbb: (lower, higher)
get_mbb(shape) ==
  IF shape.kind = "Point" THEN <<shape.position, shape.position>>
  ELSE IF shape.kind = "HyperSphere"
       THEN LET vr == Repeated(shape.radius, Len(shape.center))
            IN  <<PositionSub(shape.center, vr), PositionAdd(shape.center, vr)>>
       ELSE <<shape.lower, shape.higher>>

\* "for c in point { let t: f64 = c.into(); squared += t * t; }", from
\* coordinate i on
RECURSIVE SumOfSquares(_, _)
SumOfSquares(p, i) ==
  IF i > Len(p) THEN 0 ELSE p[i] * p[i] + SumOfSquares(p, i + 1)

RECURSIVE SumOfComponents(_, _)
SumOfComponents(p, i) ==
  IF i > Len(p) THEN 0 ELSE p[i] + SumOfComponents(p, i + 1)

\* a plausible slip: the components summed without being squared
NormWithinUnsquared(p, radius) ==
  IF Len(p) = 1 THEN Abs(p[1]) <= radius
  ELSE SumOfComponents(p, 1) <= radius * radius

\* "p.norm() <= radius" for a radius >= 0. Position::norm is the absolute
\* value for Position1 and the square root of the sum of the squares for
\* the other variants; the root is below the radius exactly when the sum is
\* below the radius squared.
NormWithin(p, radius) ==
  IF Len(p) = 1 THEN Abs(p[1]) <= radius
  ELSE SumOfSquares(p, 1) <= radius * radius

\* the filter of Shape::rasterise on a hypersphere, from position i on
RECURSIVE FilterNorm(_, _, _, _)
FilterNorm(positions, center, radius, i) ==
  IF i > Len(positions) THEN << >>
  ELSE (IF NormWithin(PositionSub(positions[i], center), radius)
        THEN <<positions[i]>> ELSE << >>)
       \o FilterNorm(positions, center, radius, i + 1)

\* Shape::rasterise
Rasterise(shape) ==
  IF shape.kind = "Point" THEN <<shape.position>>
  ELSE IF shape.kind = "HyperSphere"
       THEN LET mbb == get_mbb(shape)
            IN  FilterNorm(Gen(mbb[1], mbb[2]), shape.center, shape.radius, 1)
       ELSE Gen(shape.lower, shape.higher)

\* Shape::contains(position), for Point and BoundingBox
Contains(shape, p) ==
  IF shape.kind = "Point" THEN shape.position = p
  ELSE \A k \in DOMAIN p : shape.lower[k] <= p[k] /\ p[k] <= shape.higher[k]

(***************************************************************************)
(* SpaceSetIndex, the point table of one level.                            *)
(***************************************************************************)
\* the bag B restricted to the elements of the set S
Restrict(B, S) == [x \in S |-> B[x]]

Range(s) == {s[i] : i \in DOMAIN s}

\* SpaceSetIndex::find(position): the entries at exactly that position
Find(index, p) == Restrict(index, {o \in DOMAIN index : o.position = p})

\* SpaceSetIndex::find_by_value(fields): the entries carrying that offset
FindByValue(index, offset) ==
  Restrict(index, {o \in DOMAIN index : o.value = offset})

\* SpaceSetIndex::find_by_shape(shape, view_port): the entries on a rasterised
\* position, inside the view port when there is one, each once
FindByShape(index, shape, view_port) ==
  SetToBag({o \in BagToSet(index) :
              /\ o.position \in Range(Rasterise(shape))
              /\ view_port.some => Contains(view_port.v, o.position)})

(***************************************************************************)
(* Resolution selection (space_db.rs 231-316). Levels are numbered from 0. *)
(***************************************************************************)
\* SpaceDB::lowest_resolution
lowest_resolution(r) == Len(r) - 1

\* a plausible slip: "volume < threshold" for "volume <= threshold"
RECURSIVE DefaultScanStrict(_, _, _)
DefaultScanStrict(r, volume, i) ==
  IF i >= Len(r) THEN lowest_resolution(r)
  ELSE IF FLess(volume, r[i + 1].threshold) THEN i
  ELSE DefaultScanStrict(r, volume, i + 1)

\* SpaceDB::default_resolution: the scan "for i in 0..self.resolutions.len()"
RECURSIVE DefaultScan(_, _, _)
DefaultScan(r, volume, i) ==
  IF i >= Len(r) THEN lowest_resolution(r)
  ELSE IF FLeq(volume, r[i + 1].threshold) THEN i
  ELSE DefaultScan(r, volume, i + 1)

default_resolution(r, volume) == DefaultScan(r, volume, 0)

\* a <= b on slices of u32: lexicographic, a proper prefix being smaller
RECURSIVE SliceLeq(_, _)
SliceLeq(a, b) ==
  IF a = << >> THEN TRUE
  ELSE IF b = << >> THEN FALSE
  ELSE IF Head(a) < Head(b) THEN TRUE
  ELSE IF Head(a) > Head(b) THEN FALSE
  ELSE SliceLeq(Tail(a), Tail(b))

\* SpaceDB::find_resolution: the scan "if scale <= self.resolutions[i].scale()"
RECURSIVE FindScan(_, _, _)
FindScan(r, scale, i) ==
  IF i >= Len(r) THEN lowest_resolution(r)
  ELSE IF SliceLeq(scale, r[i + 1].scale) THEN i
  ELSE FindScan(r, scale, i + 1)

find_resolution(r, scale) == FindScan(r, scale, 0)

\* SpaceDB::get_resolution
get_resolution(r, parameters) ==
  IF ~parameters.resolution.some
  THEN IF parameters.threshold_volume.some
       THEN default_resolution(r, parameters.threshold_volume.v)
       ELSE lowest_resolution(r)
  ELSE find_resolution(r, parameters.resolution.v)

(***************************************************************************)
(* Queries (space_db.rs 318-414).                                          *)
(***************************************************************************)
\* a plausible slip: the offset is handed back as it is stored
DecodeValueRaw(v, o) == o

\* o.set_value(self.values[o.value().u64() as usize])
DecodeValue(v, o) == [o EXCEPT !.value = v[o.value + 1]]

\* SpaceDB::decode
decode(v, B) == BagOfAll(LAMBDA o : DecodeValue(v, o), B)

\* the view port filter of get_by_id (lines 345-352)
FilterViewPort(B, view_port) ==
  IF view_port.some
  THEN Restrict(B, {o \in DOMAIN B : Contains(view_port.v, o.position)})
  ELSE B

\* a plausible slip: the value field is not restored to the caller's id
get_by_id_offset(v, r, id, parameters) ==
  LET search == BinarySearch(v, id)
  IN  IF search.found
      THEN LET index == get_resolution(r, parameters)
               found == FindByValue(r[index + 1].index, search.offset)
           IN  FilterViewPort(found, parameters.view_port)
      ELSE EmptyBag

\* SpaceDB::get_by_id
get_by_id(v, r, id, parameters) ==
  LET search == BinarySearch(v, id)
  IN  IF search.found
      THEN LET index == get_resolution(r, parameters)
               found == FindByValue(r[index + 1].index, search.offset)
               results == FilterViewPort(found, parameters.view_port)
           IN  BagOfAll(LAMBDA o : [o EXCEPT !.value = id], results)
      ELSE EmptyBag

\* positions.iter().flat_map(|position| self.resolutions[index].find(position))
RECURSIVE FlatMapFind(_, _)
FlatMapFind(index, positions) ==
  IF positions = << >> THEN EmptyBag
  ELSE Find(index, Head(positions)) (+) FlatMapFind(index, Tail(positions))

\* SpaceDB::get_by_positions: the view port is not consulted
get_by_positions(v, r, positions, parameters) ==
  LET index == get_resolution(r, parameters)
  IN  decode(v, FlatMapFind(r[index + 1].index, positions))

\* SpaceDB::get_by_shape
get_by_shape(v, r, shape, parameters) ==
  LET index == get_resolution(r, parameters)
  IN  decode(v, FindByShape(r[index + 1].index, shape, parameters.view_port))

(***************************************************************************)
(* Query inputs.                                                           *)
(***************************************************************************)
\* threshold volumes asked for: 0, a threshold, between two thresholds, the
\* whole space, more than the whole space (as f64::MAX is)
QueryVolumes == {0, 4, 5, 8, 100}

QueryScales == {<<1, 1, 1>>, <<0, 2, 0>>, <<3, 3, 3>>}

ViewPorts == {BoundingBox(<<0, 0, 0>>, <<1, 1, 1>>), Point(<<2, 1, 0>>)}

QueryPositions ==
  { << <<0, 0, 0>> >>, << <<2, 1, 0>> >>, << <<1, 0, 0>>, <<3, 2, 1>> >> }

QueryShapes ==
  { Point(<<1, 0, 0>>),
    BoundingBox(<<0, 0, 0>>, <<3, 2, 1>>),
    BoundingBox(<<1, 0, 0>>, <<4, 3, 2>>) }

Optional(S) == {None} \cup {Some(x) : x \in S}

\* the parameters get_resolution is asked with
ResolutionParameters ==
  [threshold_volume : Optional({F(q) : q \in QueryVolumes}),
   resolution : Optional(QueryScales),
   view_port : {None}]

\* the parameters the three queries are asked with
QueryParameters ==
  [threshold_volume : Optional({F(0), F(100)}),
   resolution : {None},
   view_port : Optional(ViewPorts)]

GetResolution ==
  /\ pc = "built"
  /\ \E parameters \in ResolutionParameters :
       /\ query' = [op |-> "get_resolution", parameters |-> parameters]
       /\ result' = get_resolution(resolutions, parameters)
  /\ pc' = "answered"
  /\ UNCHANGED <<args, values, space_objects, powers, count,
                 element_count_target, indices, resolutions>>

GetById ==
  /\ pc = "built"
  /\ \E id \in QueryIds, parameters \in QueryParameters :
       /\ query' = [op |-> "get_by_id", id |-> id, parameters |-> parameters]
       /\ result' = get_by_id(values, resolutions, id, parameters)
  /\ pc' = "answered"
  /\ UNCHANGED <<args, values, space_objects, powers, count,
                 element_count_target, indices, resolutions>>

GetByPositions ==
  /\ pc = "built"
  /\ \E positions \in QueryPositions, parameters \in QueryParameters :
       /\ query' = [op |-> "get_by_positions", positions |-> positions,
                    parameters |-> parameters]
       /\ result' = get_by_positions(values, resolutions, positions, parameters)
  /\ pc' = "answered"
  /\ UNCHANGED <<args, values, space_objects, powers, count,
                 element_count_target, indices, resolutions>>

GetByShape ==
  /\ pc = "built"
  /\ \E shape \in QueryShapes, parameters \in QueryParameters :
       /\ query' = [op |-> "get_by_shape", shape |-> shape,
                    parameters |-> parameters]
       /\ result' = get_by_shape(values, resolutions, shape, parameters)
  /\ pc' = "answered"
  /\ UNCHANGED <<args, values, space_objects, powers, count,
                 element_count_target, indices, resolutions>>

\* the caller takes the answer; the SpaceDB is ready for the next query
Return ==
  /\ pc = "answered"
  /\ pc' = "built"
  /\ query' = [op |-> "none"]
  /\ result' = EmptyBag
  /\ UNCHANGED <<args, values, space_objects, powers, count,
                 element_count_target, indices, resolutions>>

Query ==
  \/ GetResolution
  \/ GetById
  \/ GetByPositions
  \/ GetByShape
  \/ Return

Next == Build \/ Query

Spec == Init /\ [][Next]_vars

(***************************************************************************)
(* Position (position.rs). A position built by Position::new or by one of  *)
(* the From conversions is Position1 when it has one coordinate,           *)
(* Position2..Position8 or PositionN otherwise: the variant follows from   *)
(* the length. A call either returns a value or panics.                    *)
(***************************************************************************)
Panic == [panic |-> TRUE]

Returned(v) == [panic |-> FALSE, value |-> v]

\* Position::dimensions
dimensions(p) == Len(p)

\* Index<usize>::index(k), k counted from 0. The Position1 arm returns its
\* coordinate without looking at k; the other arms index their array or
\* vector, which panics when k is out of range.
PositionIndex(p, k) ==
  IF dimensions(p) = 1 THEN Returned(p[1])
  ELSE IF k < Len(p) THEN Returned(p[k + 1])
  ELSE Panic

\* "self[k] = v" through IndexMut<usize>::index_mut(k): the position after
\* the assignment
PositionIndexMut(p, k, v) ==
  IF dimensions(p) = 1 THEN Returned(<<v>>)
  ELSE IF k < Len(p) THEN Returned([p EXCEPT ![k + 1] = v])
  ELSE Panic

\* PartialEq::eq from index i on: "for i in 0..self.dimensions()
\* { if self[i] != other[i] { return false; } } true"
RECURSIVE EqFrom(_, _, _)
EqFrom(self, other, i) ==
  IF i >= dimensions(self) THEN Returned(TRUE)
  ELSE LET a == PositionIndex(self, i)
           b == PositionIndex(other, i)
       IN  IF a.panic \/ b.panic THEN Panic
           ELSE IF a.value # b.value THEN Returned(FALSE)
           ELSE EqFrom(self, other, i + 1)

\* self == other
PositionEq(self, other) == EqFrom(self, other, 0)

(***************************************************************************)
(* The primitives called on their own: the threshold ladder of lines       *)
(* 196-210, Shape::rasterise, and indexing and comparing positions. No     *)
(* database is built; query holds the call and result what it returned.    *)
(***************************************************************************)
\* the dimensions of the positions and shapes tried
Dims == {1, 2, 3}

\* the positions of dimension d on the grid 0..MaxCoord
Grid(d) == [1..d -> 0..MaxCoord]

Positions == UNION {Grid(d) : d \in Dims}

\* boxes with lower <= higher on every axis, the invariant of the shape
Boxes ==
  UNION {{BoundingBox(b[1], b[2]) :
             b \in {c \in Grid(d) \X Grid(d) : \A k \in 1..d : c[1][k] <= c[2][k]}} :
         d \in Dims}

\* spheres whose bounding box has no coordinate below zero
Spheres ==
  UNION {{HyperSphere(c, r) : c \in {g \in Grid(d) : \A k \in 1..d : g[k] >= r}} :
         d \in Dims, r \in 0..MaxRadius}

\* the levels "indices" holds after an explicit ladder of n scales over no
\* objects: the shifts are 0, 1, ..., capped at 31
LadderOf(n) == [i \in 1..n |-> Level(EmptyBag, 0, ShiftOf(i - 1))]

PrimitivesInit ==
  /\ pc = "primitives"
  /\ objects = EmptyBag
  /\ scales = None
  /\ max_elements = None
  /\ space_volume \in {F(v) : v \in Volumes}
  /\ values = << >>
  /\ space_objects = EmptyBag
  /\ powers = << >>
  /\ count = 0
  /\ element_count_target = 0
  /\ indices = << >>
  /\ resolutions = << >>
  /\ query = [op |-> "none"]
  /\ result = EmptyBag

\* lines 196-210 on a ladder of n levels
Thresholds ==
  /\ pc = "primitives"
  /\ \E n \in 1..MaxLevels :
       /\ query' = [op |-> "thresholds", indices |-> LadderOf(n)]
       /\ result' = Unsorted(LadderOf(n), space_volume)
  /\ pc' = "returned"
  /\ UNCHANGED <<args, values, space_objects, powers, count,
                 element_count_target, indices, resolutions>>

\* shape.rasterise()
RasteriseShape ==
  /\ pc = "primitives"
  /\ \E shape \in Boxes \cup Spheres :
       /\ query' = [op |-> "rasterise", shape |-> shape]
       /\ result' = Rasterise(shape)
  /\ pc' = "returned"
  /\ UNCHANGED <<args, values, space_objects, powers, count,
                 element_count_target, indices, resolutions>>

\* position[k]
IndexPosition ==
  /\ pc = "primitives"
  /\ \E p \in Positions, k \in 0..MaxCoord + 1 :
       /\ query' = [op |-> "index", position |-> p, k |-> k]
       /\ result' = PositionIndex(p, k)
  /\ pc' = "returned"
  /\ UNCHANGED <<args, values, space_objects, powers, count,
                 element_count_target, indices, resolutions>>

\* position[k] = v
IndexMutPosition ==
  /\ pc = "primitives"
  /\ \E p \in Positions, k \in 0..MaxCoord + 1, v \in {MaxCoord + 1} :
       /\ query' = [op |-> "index_mut", position |-> p, k |-> k, v |-> v]
       /\ result' = PositionIndexMut(p, k, v)
  /\ pc' = "returned"
  /\ UNCHANGED <<args, values, space_objects, powers, count,
                 element_count_target, indices, resolutions>>

\* a == b
EqPositions ==
  /\ pc = "primitives"
  /\ \E a \in Positions, b \in Positions :
       /\ query' = [op |-> "eq", self |-> a, other |-> b]
       /\ result' = PositionEq(a, b)
  /\ pc' = "returned"
  /\ UNCHANGED <<args, values, space_objects, powers, count,
                 element_count_target, indices, resolutions>>

\* the caller takes the outcome
PrimitiveReturn ==
  /\ pc = "returned"
  /\ pc' = "primitives"
  /\ query' = [op |-> "none"]
  /\ result' = EmptyBag
  /\ UNCHANGED <<args, values, space_objects, powers, count,
                 element_count_target, indices, resolutions>>

PrimitivesNext ==
  \/ Thresholds
  \/ RasteriseShape
  \/ IndexPosition
  \/ IndexMutPosition
  \/ EqPositions
  \/ PrimitiveReturn

PrimitivesSpec == PrimitivesInit /\ [][PrimitivesNext]_vars

(***************************************************************************)
(* Queries running side by side on one SpaceDB (space_db.rs 296-414). The  *)
(* queries take &self: several callers may be inside them at once, each    *)
(* between two of its reads of values and resolutions. In this             *)
(* specification query and result hold one entry per caller.               *)
(***************************************************************************)
Threads == {1, 2}

Idle == [stage |-> "idle"]

\* the database the callers share: an explicit ladder of two levels over
\* MaxObjs objects at different positions, carrying both ids
ConcurrentBags ==
  {B \in InputBags :
     /\ BagCardinality(B) = MaxObjs
     /\ Cardinality({o.position : o \in BagToSet(B)}) = MaxObjs
     /\ {o.value : o \in BagToSet(B)} = Ids}

ConcurrentParameters ==
  [threshold_volume : {None, Some(F(0))}, resolution : {None}, view_port : {None}]

ConcurrentCalls ==
  [op : {"get_by_id"}, input : {5, 7}, parameters : ConcurrentParameters]
    \cup [op : {"get_by_positions"},
          input : {<< <<0, 0, 0>> >>, << <<1, 0, 0>>, <<3, 2, 1>> >>},
          parameters : ConcurrentParameters]
    \cup [op : {"get_by_shape"},
          input : {Point(<<0, 0, 0>>), BoundingBox(<<0, 0, 0>>, <<3, 2, 1>>)},
          parameters : ConcurrentParameters]

\* the call run from beginning to end with nobody else inside
Alone(v, r, call) ==
  IF call.op = "get_by_id" THEN get_by_id(v, r, call.input, call.parameters)
  ELSE IF call.op = "get_by_positions"
       THEN get_by_positions(v, r, call.input, call.parameters)
       ELSE get_by_shape(v, r, call.input, call.parameters)

\* a plausible slip: the values are restored in the stored objects
\* themselves, not in the vector the lookup returned
TableDecodedInPlace(v, r, index) ==
  [r EXCEPT ![index + 1].index = decode(v, r[index + 1].index)]

\* what the last step of a query leaves in the tables: decode and the loop
\* of get_by_id write to the vector the lookup returned, which the caller
\* owns; self is borrowed immutably
TableAfterDecode(v, r, index) == r

ConcurrentInit ==
  /\ pc = "new"
  /\ objects \in ConcurrentBags
  /\ scales = Some(<< <<2, 2, 2>>, <<0, 0, 0>> >>)
  /\ max_elements = None
  /\ space_volume \in {F(v) : v \in Volumes}
  /\ values = << >>
  /\ space_objects = objects
  /\ powers = << >>
  /\ count = 0
  /\ element_count_target = 0
  /\ indices = << >>
  /\ resolutions = << >>
  /\ query = [t \in Threads |-> Idle]
  /\ result = [t \in Threads |-> EmptyBag]

\* a caller enters a query
Enter(t) ==
  /\ pc = "built"
  /\ query[t].stage = "idle"
  /\ \E call \in ConcurrentCalls :
       query' = [query EXCEPT ![t] =
                   [stage |-> "entered", op |-> call.op, input |-> call.input,
                    parameters |-> call.parameters]]
  /\ UNCHANGED <<args, values, space_objects, powers, count,
                 element_count_target, indices, resolutions, pc, result>>

\* get_by_id finds no such id and returns the empty vector (lines 361-363)
NotFound(t) ==
  /\ pc = "built"
  /\ query[t].stage = "entered"
  /\ query[t].op = "get_by_id"
  /\ ~BinarySearch(values, query[t].input).found
  /\ query' = [query EXCEPT ![t].stage = "done"]
  /\ result' = [result EXCEPT ![t] = EmptyBag]
  /\ UNCHANGED <<args, values, space_objects, powers, count,
                 element_count_target, indices, resolutions, pc>>

\* let index = self.get_resolution(threshold_volume, resolution)
SelectLevel(t) ==
  /\ pc = "built"
  /\ query[t].stage = "entered"
  /\ query[t].op = "get_by_id" => BinarySearch(values, query[t].input).found
  /\ query' = [query EXCEPT ![t] =
                 [stage |-> "selected", op |-> query[t].op, input |-> query[t].input,
                  parameters |-> query[t].parameters,
                  index |-> get_resolution(resolutions, query[t].parameters)]]
  /\ UNCHANGED <<args, values, space_objects, powers, count,
                 element_count_target, indices, resolutions, pc, result>>

\* the lookup in self.resolutions[index]: find_by_value and the view port
\* filter, find for each position, or find_by_shape
Lookup(t) ==
  /\ pc = "built"
  /\ query[t].stage = "selected"
  /\ LET call == query[t]
         table == resolutions[call.index + 1].index
         found ==
           IF call.op = "get_by_id"
           THEN FilterViewPort(
                  FindByValue(table, BinarySearch(values, call.input).offset),
                  call.parameters.view_port)
           ELSE IF call.op = "get_by_positions"
                THEN FlatMapFind(table, call.input)
                ELSE FindByShape(table, call.input, call.parameters.view_port)
     IN  /\ query' = [query EXCEPT ![t].stage = "found"]
         /\ result' = [result EXCEPT ![t] = found]
  /\ UNCHANGED <<args, values, space_objects, powers, count,
                 element_count_target, indices, resolutions, pc>>

\* the values are restored in the vector found, which is returned
Decode(t) ==
  /\ pc = "built"
  /\ query[t].stage = "found"
  /\ query' = [query EXCEPT ![t].stage = "done"]
  /\ result' = [result EXCEPT ![t] =
                  IF query[t].op = "get_by_id"
                  THEN BagOfAll(LAMBDA o : [o EXCEPT !.value = query[t].input],
                                result[t])
                  ELSE decode(values, result[t])]
  /\ resolutions' = TableAfterDecode(values, resolutions, query[t].index)
  /\ UNCHANGED <<args, values, space_objects, powers, count,
                 element_count_target, indices, pc>>

\* the caller takes the answer
Leave(t) ==
  /\ pc = "built"
  /\ query[t].stage = "done"
  /\ query' = [query EXCEPT ![t] = Idle]
  /\ result' = [result EXCEPT ![t] = EmptyBag]
  /\ UNCHANGED <<args, values, space_objects, powers, count,
                 element_count_target, indices, resolutions, pc>>

ConcurrentNext ==
  \/ BuildDictionary
  \/ ScalesPrepare
  \/ ScalesStep
  \/ Finish
  \/ \E t \in Threads : Enter(t)
  \/ \E t \in Threads : NotFound(t)
  \/ \E t \in Threads : SelectLevel(t)
  \/ \E t \in Threads : Lookup(t)
  \/ \E t \in Threads : Decode(t)
  \/ \E t \in Threads : Leave(t)

ConcurrentSpec == ConcurrentInit /\ [][ConcurrentNext]_vars

(***************************************************************************)
(* Properties.                                                             *)
(***************************************************************************)
\* SpaceDB::new has returned
Built == pc \in {"built", "answered"}

\* the auto path with max_elements is being followed
AutoPath == ~scales.some /\ max_elements.some

Card(B) == BagCardinality(B)

InputObjects == BagToSet(objects)

\* the input objects as level `scale` should hold them, with the caller's values
CoarsenedInput(scale) ==
  {[position |-> ReducePrecision(o.position, scale), value |-> o.value] : o \in InputObjects}

\* C1: on the auto path with max_elements the coarsening loop stops once the
\* deduplicated element count is <= max(max_elements, |values|) or after
\* 2^32 - 1 iterations: the loop is never back at its head, an iteration
\* done, with the count within the limit or the counter at its maximum.
C1_LoopStopsAtLimit ==
  (pc = "loop" /\ count > 0) =>
     /\ Card(space_objects) > MaxElementsOf(max_elements.v, values)
     /\ ~IsU32Max(count)

\* C2: after SpaceDB::new returns, on each of the three ladder paths,
\* resolutions is non-empty and the thresholds never decrease along it.
C2_ThresholdsAscend ==
  Built =>
     /\ Len(resolutions) >= 1
     /\ \A i \in 1..Len(resolutions) :
          \A j \in i..Len(resolutions) :
             FLeq(resolutions[i].threshold, resolutions[j].threshold)

\* an auto ladder of two levels with different thresholds
C2_Witness ==
  /\ Built
  /\ AutoPath
  /\ Len(resolutions) = 2
  /\ FLess(resolutions[1].threshold, resolutions[2].threshold)

\* C3: after SpaceDB::new returns, resolutions runs from finest to coarsest:
\* the scale never decreases along it, and levels with equal thresholds stand
\* in the order in which they were emitted.
C3_FinestFirst ==
  Built =>
     /\ \A i \in 1..Len(resolutions) - 1 :
          resolutions[i].scale[1] <= resolutions[i + 1].scale[1]
     /\ \A i \in 1..Len(indices) :
          \A j \in i..Len(indices) :
             indices[i].shift = indices[j].shift =>
                \E a \in 1..Len(resolutions) :
                   \E b \in a..Len(resolutions) :
                      /\ resolutions[a].scale = indices[i].scale
                      /\ resolutions[a].index = indices[i].index
                      /\ resolutions[b].scale = indices[j].scale
                      /\ resolutions[b].index = indices[j].index

C5_Dictionary ==
  pc # "new" =>
     /\ \A i \in 1..Len(values) : \A j \in 1..Len(values) :
          i < j => values[i] < values[j]
     /\ {values[i] : i \in 1..Len(values)} = {o.value : o \in InputObjects}

\* two values, one of them carried by two objects
C5_Witness ==
  /\ Built
  /\ Len(values) = 2
  /\ Card(objects) = 3

\* C6: every object stored in any level carries an offset o, 0 <= o <
\* |values|, and values[o] is the value its input object carried: the level
\* decoded is the input coarsened to the level's scale.
C6_StoredOffsets ==
  \A n \in 1..Len(indices) :
     \A o \in BagToSet(indices[n].index) :
        /\ o.value \in 0..(Len(values) - 1)
        /\ [position |-> o.position, value |-> values[o.value + 1]]
              \in CoarsenedInput(indices[n].scale[1])

\* a coarsened level holding objects of both values
C6_Witness ==
  /\ Built
  /\ \E n \in 1..Len(resolutions) :
       /\ resolutions[n].scale[1] > 0
       /\ {o.value : o \in BagToSet(resolutions[n].index)} = {0, 1}

\* the three queries that return objects
ObjectQueries == {"get_by_id", "get_by_positions", "get_by_shape"}

Answered(op) == pc = "answered" /\ query.op = op

\* C7: every object a query returns carries a value supplied at build time,
\* never a dictionary offset: it is an input object, coarsened to the scale
\* of some level, with the value the caller gave it.
C7_ValuesDecoded ==
  (pc = "answered" /\ query.op \in ObjectQueries) =>
     \A o \in BagToSet(result) :
        /\ o.value \in {i.value : i \in InputObjects}
        /\ \E n \in 1..Len(resolutions) :
             o \in CoarsenedInput(resolutions[n].scale[1])

\* get_by_positions and get_by_shape returned objects of the second value
C7_Witness ==
  /\ pc = "answered"
  /\ query.op \in {"get_by_positions", "get_by_shape"}
  /\ Len(values) = 2
  /\ \E o \in BagToSet(result) : o.value = values[2]

\* full-volume parameters: a threshold volume no level reaches (f64::MAX),
\* no explicit resolution
FullVolume(parameters) ==
  /\ parameters.threshold_volume.some
  /\ \A n \in 1..Len(resolutions) :
       FLess(resolutions[n].threshold, parameters.threshold_volume.v)
  /\ ~parameters.resolution.some

\* C8: get_by_id(id, params) is empty when id is not in values; with
\* full-volume parameters and no view port it is exactly the build-time
\* positions tagged with id, coarsened to the scale of the coarsest level
\* (the level lowest_resolution() names), each carrying id.
C8_GetById ==
  Answered("get_by_id") =>
     /\ (query.id \notin {o.value : o \in InputObjects}) => result = EmptyBag
     /\ (/\ query.id \in {o.value : o \in InputObjects}
         /\ FullVolume(query.parameters)
         /\ ~query.parameters.view_port.some)
        => BagToSet(result) =
             {o \in CoarsenedInput(resolutions[Len(resolutions)].scale[1]) :
                o.value = query.id}

\* an id looked up at full volume on a ladder whose coarsest level is
\* coarsened, in a database holding another id too
C8_Witness ==
  /\ Answered("get_by_id")
  /\ FullVolume(query.parameters)
  /\ ~query.parameters.view_port.some
  /\ resolutions[Len(resolutions)].scale[1] > 0
  /\ Len(values) = 2
  /\ query.id = values[2]
  /\ Card(result) >= 1

\* C9: when a view port is supplied, every object a query returns lies in it.
C9_ViewPortFilters ==
  (/\ pc = "answered"
   /\ query.op \in ObjectQueries
   /\ query.parameters.view_port.some)
  => \A o \in BagToSet(result) : Contains(query.parameters.view_port.v, o.position)

\* C10: get_resolution with no explicit resolution returns, when a threshold
\* volume is supplied, the smallest index whose threshold is >= the volume,
\* or the coarsest index len - 1 when there is none; with no threshold volume
\* either, the coarsest index.
C10_DefaultResolution ==
  (Answered("get_resolution") /\ ~query.parameters.resolution.some) =>
     LET enough == {i \in 0..(Len(resolutions) - 1) :
                      FLeq(query.parameters.threshold_volume.v,
                           resolutions[i + 1].threshold)}
     IN  IF query.parameters.threshold_volume.some /\ enough # {}
         THEN result \in enough /\ \A i \in enough : result <= i
         ELSE result = Len(resolutions) - 1

\* a volume equal to the threshold of a level that is not the coarsest
C10_Witness ==
  /\ Answered("get_resolution")
  /\ ~query.parameters.resolution.some
  /\ query.parameters.threshold_volume.some
  /\ Len(resolutions) >= 2
  /\ result < Len(resolutions) - 1
  /\ resolutions[result + 1].threshold.num * query.parameters.threshold_volume.v.den
        = query.parameters.threshold_volume.v.num * resolutions[result + 1].threshold.den
  /\ query.parameters.threshold_volume.v.num > 0

\* C11: get_resolution with an explicit resolution r returns the index of the
\* first level whose scale is >= r on every component, or the coarsest index
\* len - 1 when no level is, also for an r whose components differ.
C11_ExplicitResolution ==
  (Answered("get_resolution") /\ query.parameters.resolution.some) =>
     LET r == query.parameters.resolution.v
         covering == {i \in 0..(Len(resolutions) - 1) :
                        \A k \in 1..DIMENSIONS : resolutions[i + 1].scale[k] >= r[k]}
     IN  IF covering # {}
         THEN result \in covering /\ \A i \in covering : result <= i
         ELSE result = Len(resolutions) - 1

\* C13: on the explicit path the level of scale [p, p, p] holds exactly one
\* entry for each distinct pair (input position reduced by p bits, offset of
\* the input value): the reductions by p - q from the level before add up to
\* p, objects of different values that meet on a position are both kept, and
\* objects that meet on position and value are stored once.
C13_ExplicitLevels ==
  scales.some =>
     \A n \in 1..Len(indices) :
        /\ \A o \in BagToSet(indices[n].index) : CopiesIn(o, indices[n].index) = 1
        /\ {[position |-> o.position, value |-> values[o.value + 1]] :
               o \in BagToSet(indices[n].index)}
              = CoarsenedInput(indices[n].scale[1])

\* a level reduced in two steps (by q = 1, then by p - q = 1) on which two
\* objects of different values share a position and two objects of one value
\* have become one
C13_Witness ==
  /\ Built
  /\ scales.some
  /\ \E n \in 2..Len(indices) :
       /\ indices[n - 1].scale[1] = 1
       /\ indices[n].scale[1] = 2
       /\ Card(indices[n].index) < Card(indices[n - 1].index)
       /\ \E a, b \in BagToSet(indices[n].index) :
            a.position = b.position /\ a.value # b.value

\* C18: on the auto path every emitted level has scale [c, c, c] with c the
\* number of bits dropped from the input positions so far, coarsenings that
\* emitted nothing included: the level holds the input positions shifted
\* right by c. And while fewer than 32 coarsenings were run, two emitted
\* levels of different scales never have the same shift.
C18_ScaleCountsBitsDropped ==
  AutoPath =>
     /\ \A n \in 1..Len(indices) :
          /\ indices[n].scale[1] = indices[n].scale[2]
          /\ indices[n].scale[1] = indices[n].scale[3]
          /\ {[position |-> o.position, value |-> values[o.value + 1]] :
                 o \in BagToSet(indices[n].index)}
                = CoarsenedInput(indices[n].scale[1])
     /\ count <= MaxShift =>
          \A i, j \in 1..Len(indices) :
             indices[i].scale # indices[j].scale =>
                indices[i].shift # indices[j].shift

\* a primitive was called and has returned
Called(op) == pc = "returned" /\ query.op = op

\* d = 2^k for 0 <= k <= 31, without writing 2^31
IsTwoToThe(d, k) == IF k = 0 THEN d = 1 ELSE d % 2 = 0 /\ d \div 2 = 2 ^ (k - 1)

\* C12: with V the space volume and S the largest shift of the ladder, every
\* level with shift s gets the threshold V / 2^(S - s) for every S - s in
\* 0..31: the coarsest level's threshold is V, and for V > 0 every threshold
\* is positive and at most V.
C12_ThresholdIsPowerOfTwoFraction ==
  Called("thresholds") =>
     \A i \in 1..Len(result) :
        LET t == result[i].threshold
            k == MaxShiftOf(query.indices) - query.indices[i].shift
        IN  /\ t.num = space_volume.num
            /\ t.den % space_volume.den = 0
            /\ IsTwoToThe(t.den \div space_volume.den, k)
            /\ space_volume.num > 0 => t.num > 0 /\ t.den >= 1
            /\ k = 0 => t = space_volume

\* the grid points s with lo[k] <= s[k] < hi[k] on every axis
InBox(lo, hi) ==
  {s \in [1..Len(lo) -> 0..(MaxCoord + MaxRadius)] :
     \A k \in 1..Len(lo) : lo[k] <= s[k] /\ s[k] < hi[k]}

\* a comes before b in lexicographic order
LexLess(a, b) ==
  \E k \in 1..Len(a) : (\A j \in 1..(k - 1) : a[j] = b[j]) /\ a[k] < b[k]

\* C14: rasterise on BoundingBox(lo, hi) returns exactly the grid points s
\* with lo[k] <= s[k] < hi[k] on every axis, each once, in lexicographic
\* order with the last dimension varying fastest; the upper corner is left
\* out and a box with lo[k] = hi[k] on some axis yields no point with
\* s[k] = hi[k].
C14_BoxRasterised ==
  (Called("rasterise") /\ query.shape.kind = "BoundingBox") =>
     /\ Range(result) = InBox(query.shape.lower, query.shape.higher)
     /\ \A i \in 1..Len(result) :
          \A j \in (i + 1)..Len(result) : LexLess(result[i], result[j])
     /\ \A i \in 1..Len(result) :
          \A k \in 1..Len(query.shape.lower) :
             result[i][k] # query.shape.higher[k]

\* the square of the Euclidean distance between two grid points of one, two
\* or three dimensions
DistanceSquared(a, b) ==
  IF Len(a) = 1 THEN (a[1] - b[1]) * (a[1] - b[1])
  ELSE IF Len(a) = 2
       THEN (a[1] - b[1]) * (a[1] - b[1]) + (a[2] - b[2]) * (a[2] - b[2])
       ELSE (a[1] - b[1]) * (a[1] - b[1]) + (a[2] - b[2]) * (a[2] - b[2])
              + (a[3] - b[3]) * (a[3] - b[3])

C16_IndexOutOfRangePanics ==
  ((Called("index") \/ Called("index_mut")) /\ query.k >= dimensions(query.position))
     => result = Panic

\* C19: Position equality holds exactly when the two positions have the same
\* dimension and equal coordinates; positions of different dimensions are
\* never equal, and a == b has the outcome of b == a: neither panics and
\* they do not disagree.
C19_EqualityIsSymmetric ==
  Called("eq") =>
     /\ result = Returned(/\ dimensions(query.self) = dimensions(query.other)
                          /\ \A k \in 1..dimensions(query.self) :
                                query.self[k] = query.other[k])
     /\ PositionEq(query.other, query.self) = result

\* C20: rasterise on HyperSphere(c, r) returns every grid point whose
\* Euclidean distance from c is <= r, the extreme points c + r e_k on the
\* upper side of each axis included, and the returned set is symmetric about
\* the centre.
C20_SphereComplete ==
  (Called("rasterise") /\ query.shape.kind = "HyperSphere") =>
     LET c == query.shape.center
         r == query.shape.radius
     IN  /\ \A s \in [1..Len(c) -> 0..(MaxCoord + MaxRadius)] :
              DistanceSquared(s, c) <= r * r => s \in Range(result)
         /\ \A k \in 1..Len(c) : [c EXCEPT ![k] = c[k] + r] \in Range(result)
         /\ \A i \in 1..Len(result) :
              [k \in 1..Len(c) |-> 2 * c[k] - result[i][k]] \in Range(result)

\* the call caller t is in
CallOf(t) ==
  [op |-> query[t].op, input |-> query[t].input, parameters |-> query[t].parameters]

\* every finished call holds what the same call returns when run alone
AnswersAsAlone ==
  \A t \in Threads :
     query[t].stage = "done" => result[t] = Alone(values, resolutions, CallOf(t))

\* finished calls with identical inputs hold equal multisets
SameCallSameAnswer ==
  \A t, u \in Threads :
     (query[t].stage = "done" /\ query[u].stage = "done" /\ CallOf(t) = CallOf(u))
        => result[t] = result[u]

\* the dictionary and the levels are what SpaceDB::new left
AsBuilt ==
  /\ values = SortByKey(DistinctValues(objects))
  /\ resolutions \in SortOutcomes(Unsorted(indices, space_volume))

\* C17: no step of a query changes values, resolutions or the contents of a
\* level: they stay as SpaceDB::new left them. However the steps of
\* concurrent queries interleave, each query returns the multiset it returns
\* when run alone, and two calls with the same inputs return equal multisets.
C17_QueriesDoNotInterfere ==
  pc = "built" => AsBuilt /\ AnswersAsAlone /\ SameCallSameAnswer

\* a caller has its answer from the finest level while the other is still
\* between its lookup and its decode on the coarsest level
C17_Witness ==
  /\ pc = "built"
  /\ query[1].stage = "done"
  /\ result[1] # EmptyBag
  /\ query[1].parameters.threshold_volume.some
  /\ query[2].stage = "found"
  /\ result[2] # EmptyBag
  /\ ~query[2].parameters.threshold_volume.some

====
